---- MODULE Spec2Model ----
(***************************************************************************)
(* Build-time data functions of the project detail page                    *)
(* (pages/[locale]/projects/[id]): getStaticPaths enumerates one path per  *)
(* catalogue feature and locale; getStaticProps joins the catalogue        *)
(* feature, its geometry and the ten HEAD probes of the downloadable       *)
(* result files into the page's props.                                     *)
(***************************************************************************)
EXTENDS Integers, Sequences, FiniteSets, TLC

(* ---------------------------------------------------------------------- *)
(* Bounds of the model                                                     *)
(* ---------------------------------------------------------------------- *)
MaxFeatures == 2
MaxGeometries == 1
MaxLocales == 2
MaxVaried == 2

(* ---------------------------------------------------------------------- *)
(* JavaScript values                                                       *)
(* ---------------------------------------------------------------------- *)
Null == [t |-> "null"]
Undefined == [t |-> "undefined"]
NaN == [t |-> "NaN"]
\* a finite number, kept as the exact fraction n/d (d > 0)
Num(n, d) == [t |-> "number", n |-> n, d |-> d]
Str(chars) == [t |-> "string", chars |-> chars]

\* a ?? b
Coalesce(a, b) == IF a = Null \/ a = Undefined THEN b ELSE a

\* Math.round: the integer nearest to x, a tie going up; NaN stays NaN
MathRound(x) ==
    IF x.t = "number" THEN Num((2 * x.n + x.d) \div (2 * x.d), 1) ELSE NaN

\* x * k for an integer k
Times(x, k) == IF x.t = "number" THEN Num(x.n * k, x.d) ELSE NaN

Digits == <<"0", "1", "2", "3", "4", "5", "6", "7", "8", "9">>

DigitValue(c) == (CHOOSE i \in DOMAIN Digits : Digits[i] = c) - 1

RECURSIVE DecimalValue(_)
DecimalValue(chars) ==
    IF chars = <<>> THEN 0
    ELSE DecimalValue(SubSeq(chars, 1, Len(chars) - 1)) * Len(Digits)
         + DigitValue(chars[Len(chars)])

\* Number(s) of a header string: its decimal value, 0 for "", NaN otherwise
Number(s) ==
    IF \A i \in DOMAIN s.chars : \E j \in DOMAIN Digits : Digits[j] = s.chars[i]
    THEN Num(DecimalValue(s.chars), 1)
    ELSE NaN

(* ---------------------------------------------------------------------- *)
(* Array.prototype.find: the first element the predicate accepts           *)
(* ---------------------------------------------------------------------- *)
\* variant: a find that falls back to the first element when nothing matches
FindOrFirst(features, id) ==
    IF \E i \in DOMAIN features : features[i].project_id = id
    THEN features[CHOOSE i \in DOMAIN features :
                    /\ features[i].project_id = id
                    /\ \A j \in 1..(i - 1) : features[j].project_id # id]
    ELSE IF features = <<>> THEN Undefined ELSE features[1]

Find(features, id) ==
    IF \E i \in DOMAIN features : features[i].project_id = id
    THEN features[CHOOSE i \in DOMAIN features :
                    /\ features[i].project_id = id
                    /\ \A j \in 1..(i - 1) : features[j].project_id # id]
    ELSE Undefined

(* ---------------------------------------------------------------------- *)
(* The download catalogue                                                  *)
(* ---------------------------------------------------------------------- *)
Host == "https://apps.mapswipe.org/api/"

Downloads == <<
    [name |-> "aggregated_results", type |-> "csv",
     head |-> "agg_results/agg_results_", tail |-> ".csv.gz"],
    [name |-> "aggregated_results_with_geometry", type |-> "geojson",
     head |-> "agg_results/agg_results_", tail |-> "_geom.geojson.gz"],
    [name |-> "hot_tasking_manager_geometries", type |-> "geojson",
     head |-> "hot_tm/hot_tm_", tail |-> ".geojson"],
    [name |-> "moderate_to_high_agreement_yes_maybe_geometries", type |-> "geojson",
     head |-> "yes_maybe/yes_maybe_", tail |-> ".geojson"],
    [name |-> "groups", type |-> "geojson",
     head |-> "groups/groups_", tail |-> ".csv.gz"],
    [name |-> "history", type |-> "geojson",
     head |-> "history/history_", tail |-> ".csv"],
    [name |-> "results", type |-> "geojson",
     head |-> "results/results_", tail |-> ".csv.gz"],
    [name |-> "tasks", type |-> "geojson",
     head |-> "tasks/tasks_", tail |-> ".csv.gz"],
    [name |-> "users", type |-> "geojson",
     head |-> "users/users_", tail |-> ".csv.gz"],
    [name |-> "area_of_interest", type |-> "geojson",
     head |-> "project_geometries/project_geom_", tail |-> ".geojson"] >>

\* the urls array of getStaticProps: the identifier substituted in each template
Urls(id) ==
    [i \in DOMAIN Downloads |->
        [name |-> Downloads[i].name,
         type |-> Downloads[i].type,
         url |-> <<Host, Downloads[i].head, id, Downloads[i].tail>>]]

(* ---------------------------------------------------------------------- *)
(* One probe: the value the async callback of urls.map resolves to         *)
(* ---------------------------------------------------------------------- *)
UrlResponse(url, res) ==
    [name |-> url.name, type |-> url.type, url |-> url.url,
     ok |-> res.ok,
     size |-> Number(Coalesce(res.contentLength, Str(<<"0">>)))]

Pending == [state |-> "pending", lost |-> FALSE]
Lost == [state |-> "pending", lost |-> TRUE]
Rejected == [state |-> "rejected"]
Fulfilled(value) == [state |-> "fulfilled", value |-> value]

\* variant: only the rows whose probe was answered with a success status
PromiseAllOkOnly(promises) ==
    LET values == [i \in DOMAIN promises |-> promises[i].value]
    IN SelectSeq(values, LAMBDA v : v.ok)

\* Promise.all of fulfilled promises: their values, in the order of the array
PromiseAll(promises) == [i \in DOMAIN promises |-> promises[i].value]

(* ---------------------------------------------------------------------- *)
(* The props of the returned record                                        *)
(* ---------------------------------------------------------------------- *)
\* variant: an absent fraction coerced to 0
TotalProgressOrZero(progress) == MathRound(Times(Coalesce(progress, Num(0, 1)), 100))

TotalProgress(progress) ==
    IF progress # Null /\ progress # Undefined
    THEN MathRound(Times(progress, 100))
    ELSE Null

\* variant: Math.floor in place of Math.round
TotalAreaFloor(area_sqkm) ==
    LET a == Coalesce(area_sqkm, Num(0, 1)) IN Num(a.n \div a.d, 1)

TotalArea(area_sqkm) == MathRound(Coalesce(area_sqkm, Num(0, 1)))

Props(p, g, urlResponses) ==
    [totalProgress |-> TotalProgress(p.progress),
     totalArea |-> TotalArea(p.area_sqkm),
     totalContributors |-> Coalesce(p.number_of_users, Null),
     name |-> p.name,
     status |-> p.status,
     projectGeoJSON |-> Coalesce(g, Null),
     urls |-> urlResponses]

(* ---------------------------------------------------------------------- *)
(* getStaticPaths: flatMap of the features over the locales                *)
(* ---------------------------------------------------------------------- *)
\* variant: every entry of a feature carries the first locale
RECURSIVE FlatMapFirstLocale(_, _)
FlatMapFirstLocale(features, locs) ==
    IF features = <<>> THEN <<>>
    ELSE [l \in DOMAIN locs |->
             [id |-> features[1].project_id, locale |-> locs[1]]]
         \o FlatMapFirstLocale(Tail(features), locs)

RECURSIVE FlatMap(_, _)
FlatMap(features, locs) ==
    IF features = <<>> THEN <<>>
    ELSE [l \in DOMAIN locs |->
             [id |-> features[1].project_id, locale |-> locs[l]]]
         \o FlatMap(Tail(features), locs)

(* ---------------------------------------------------------------------- *)
(* Inputs: the remote collections, the configured locales, the asset host  *)
(* ---------------------------------------------------------------------- *)
ProjectIds == {"p1", "p2"}
RequestedIds == ProjectIds \cup {"p9"}
LocaleCodes == {"en", "de", "fr"}

\* properties of a catalogue feature other than its identifier
PropertyVariants == {
    [name |-> "A", status |-> "active", progress |-> Num(4567, 10000),
     area_sqkm |-> Num(123, 10), number_of_users |-> Num(7, 1)],
    [name |-> "B", status |-> "finished", progress |-> Num(1, 1),
     area_sqkm |-> Num(127, 10), number_of_users |-> Undefined],
    [name |-> "C", status |-> "draft", progress |-> Null,
     area_sqkm |-> Null, number_of_users |-> Null],
    [name |-> "D", status |-> "archived", progress |-> Undefined,
     area_sqkm |-> Undefined, number_of_users |-> Num(0, 1)],
    [name |-> "E", status |-> "active", progress |-> Num(0, 1),
     area_sqkm |-> Num(0, 1), number_of_users |-> Num(1, 1)],
    [name |-> "F", status |-> "active", progress |-> Num(1, 200),
     area_sqkm |-> Num(25, 2), number_of_users |-> Num(2, 1)] }

Feature(id, v) ==
    [project_id |-> id, name |-> v.name, status |-> v.status,
     progress |-> v.progress, area_sqkm |-> v.area_sqkm,
     number_of_users |-> v.number_of_users]

Features == {Feature(id, v) : id \in ProjectIds, v \in PropertyVariants}

Geometry(id) == [project_id |-> id, geometry |-> [t |-> "polygon", of |-> id]]

Geometries == {Geometry(id) : id \in ProjectIds}

SeqsUpTo(S, n) == UNION {[1..k -> S] : k \in 0..n}

Distinct(s) == \A i, j \in DOMAIN s : i # j => s[i] # s[j]

\* what a HEAD request can be answered with
ContentLengths == {Null, Str(<<"2", "0", "4", "8">>)}
Responses == [ok : BOOLEAN, contentLength : ContentLengths]
UsualResponses == {r \in Responses : r.contentLength # Null}

NoResult == [t |-> "none"]
PropsResult(props) == [t |-> "props", props |-> props]
ErrorResult(message) == [t |-> "error", message |-> message]

(* ---------------------------------------------------------------------- *)
(* State                                                                   *)
(* ---------------------------------------------------------------------- *)
VARIABLES
    projectId,            \* context.params.id
    projects,             \* features of getProjectCentroids()
    geojsons,             \* features of getProjectGeometries()
    locales,              \* i18nextConfig.i18n.locales
    usual,                \* the asset host's answer to the probes outside varied
    varied,               \* the probes the host may answer differently, or not at all
    serial,               \* the host answers the probes in the order it got them
    pc,                   \* where the build function stands
    project,              \* const project
    geojson,              \* const geojson
    urlResponsePromises,  \* the promises of urls.map(async ...)
    res,                  \* the HEAD response each fetch resolved to
    reordered,            \* a probe settled before one issued earlier
    result,               \* what getStaticProps returned or threw
    paths                 \* what getStaticPaths returned

vars == <<projectId, projects, geojsons, locales, usual, varied, serial, pc,
          project, geojson, urlResponsePromises, res, reordered, result, paths>>

inputs == <<projectId, projects, geojsons, locales, usual, varied, serial>>

Probes == DOMAIN Downloads

InitBuild ==
    /\ pc = "start"
    /\ locales = <<>>
    /\ project = Undefined
    /\ geojson = Undefined
    /\ urlResponsePromises = <<>>
    /\ res = <<>>
    /\ reordered = FALSE
    /\ result = NoResult
    /\ paths = <<>>

\* a fixed catalogue, every answer and every order of the asset host
InitProbes ==
    /\ projects = <<Feature("p1", CHOOSE v \in PropertyVariants : v.name = "A"),
                    Feature("p2", CHOOSE v \in PropertyVariants : v.name = "C")>>
    /\ geojsons = <<Geometry("p2")>>
    /\ projectId \in ProjectIds
    /\ usual \in UsualResponses
    /\ varied = {i \in Probes : i <= MaxVaried}
    /\ serial = FALSE

\* every catalogue and geometry collection, an asset host that answers in order
InitJoin ==
    /\ projects \in SeqsUpTo(Features, MaxFeatures)
    /\ geojsons \in SeqsUpTo(Geometries, MaxGeometries)
    /\ projectId \in RequestedIds
    /\ usual = [ok |-> TRUE, contentLength |-> Str(<<"2", "0", "4", "8">>)]
    /\ varied = {}
    /\ serial = TRUE

Init == InitBuild /\ (InitProbes \/ InitJoin)

(* ---------------------------------------------------------------------- *)
(* getStaticProps                                                          *)
(* ---------------------------------------------------------------------- *)
\* projects.features.find(...); throws when no feature carries the identifier
LookupProject ==
    /\ pc = "start"
    /\ project' = Find(projects, projectId)
    /\ IF project' = Undefined
       THEN /\ pc' = "done"
            /\ result' = ErrorResult(<<"Could not get project ", projectId>>)
       ELSE /\ pc' = "geometries"
            /\ UNCHANGED result
    /\ UNCHANGED <<inputs, geojson, urlResponsePromises, res, reordered, paths>>

\* variant: a geometry lookup that throws like the project lookup
LookupGeometryOrThrow ==
    /\ pc = "geometries"
    /\ LET found == Find(geojsons, projectId)
       IN IF found = Undefined
          THEN /\ pc' = "done"
               /\ result' = ErrorResult(<<"Could not get geometry ", projectId>>)
               /\ UNCHANGED geojson
          ELSE /\ geojson' = found.geometry
               /\ pc' = "urls"
               /\ UNCHANGED result
    /\ UNCHANGED <<inputs, project, urlResponsePromises, res, reordered, paths>>

\* geojsons.features.find(...)?.geometry
LookupGeometry ==
    /\ pc = "geometries"
    /\ LET found == Find(geojsons, projectId)
       IN geojson' = IF found = Undefined THEN Undefined ELSE found.geometry
    /\ pc' = "urls"
    /\ UNCHANGED <<inputs, project, urlResponsePromises, res, reordered, result, paths>>

\* urls.map(async ...): every callback runs up to its await fetch(...)
IssueProbes ==
    /\ pc = "urls"
    /\ urlResponsePromises' = [i \in Probes |-> Pending]
    /\ res' = [i \in Probes |-> Undefined]
    /\ pc' = "awaitAll"
    /\ UNCHANGED <<inputs, project, geojson, reordered, result, paths>>

Awaited(i) ==
    /\ pc = "awaitAll"
    /\ urlResponsePromises[i] = Pending
    /\ serial => \A j \in Probes : j < i => urlResponsePromises[j].state # "pending"

Overtakes(i) == \E j \in Probes : j < i /\ urlResponsePromises[j].state = "pending"

\* fetch i resolves with a response: the callback returns its row, and
\* Promise.all resolves when this was the last promise to fulfil
Respond(i, r) ==
    /\ Awaited(i)
    /\ i \in varied \/ r = usual
    /\ LET settled == [urlResponsePromises EXCEPT
                          ![i] = Fulfilled(UrlResponse(Urls(projectId)[i], r))]
       IN /\ urlResponsePromises' = settled
          /\ IF \A j \in Probes : settled[j].state = "fulfilled"
             THEN /\ pc' = "done"
                  /\ result' = PropsResult(Props(project, geojson, PromiseAll(settled)))
             ELSE UNCHANGED <<pc, result>>
    /\ res' = [res EXCEPT ![i] = r]
    /\ reordered' = (reordered \/ Overtakes(i))
    /\ UNCHANGED <<inputs, project, geojson, paths>>

\* fetch i rejects (network error): the callback's promise rejects, Promise.all
\* rejects with it at once, and the await in getStaticProps throws
Reject(i) ==
    /\ Awaited(i)
    /\ i \in varied
    /\ urlResponsePromises' = [urlResponsePromises EXCEPT ![i] = Rejected]
    /\ pc' = "done"
    /\ result' = ErrorResult(<<"fetch failed ", i>>)
    /\ reordered' = (reordered \/ Overtakes(i))
    /\ UNCHANGED <<inputs, project, geojson, res, paths>>

\* the host never answers request i: fetch(url, { method: 'HEAD' }) carries no
\* timeout or abort signal, so its promise stays pending
Hang(i) ==
    /\ Awaited(i)
    /\ i \in varied
    /\ urlResponsePromises' = [urlResponsePromises EXCEPT ![i] = Lost]
    /\ UNCHANGED <<inputs, pc, project, geojson, res, reordered, result, paths>>

Next ==
    \/ LookupProject
    \/ LookupGeometry
    \/ IssueProbes
    \/ \E i \in Probes, r \in Responses : Respond(i, r)
    \/ \E i \in Probes : Reject(i)
    \/ \E i \in Probes : Hang(i)

Spec == Init /\ [][Next]_vars

\* every enabled step of the build and every answer of the host is taken
FairSpec == Spec /\ WF_vars(Next)

(* ---------------------------------------------------------------------- *)
(* getStaticPaths                                                          *)
(* ---------------------------------------------------------------------- *)
InitPaths ==
    /\ pc = "paths"
    /\ projects \in SeqsUpTo(Features, MaxFeatures)
    /\ locales \in {l \in SeqsUpTo(LocaleCodes, MaxLocales) : Distinct(l)}
    /\ geojsons = <<>>
    /\ projectId = Undefined
    /\ usual = Undefined
    /\ varied = {}
    /\ serial = FALSE
    /\ project = Undefined
    /\ geojson = Undefined
    /\ urlResponsePromises = <<>>
    /\ res = <<>>
    /\ reordered = FALSE
    /\ result = NoResult
    /\ paths = <<>>

GetStaticPaths ==
    /\ pc = "paths"
    /\ paths' = FlatMap(projects, locales)
    /\ pc' = "done"
    /\ UNCHANGED <<inputs, project, geojson, urlResponsePromises, res, reordered, result>>

NextPaths == GetStaticPaths

SpecPaths == InitPaths /\ [][NextPaths]_vars

(* ---------------------------------------------------------------------- *)
(* Properties                                                              *)
(* ---------------------------------------------------------------------- *)
Abs(x) == IF x < 0 THEN -x ELSE x

\* k is an integer nearest to the fraction x
Nearest(k, x) == 2 * Abs(x.n - k * x.d) <= x.d

Absent(x) == x = Null \/ x = Undefined

Catalogued == \E k \in DOMAIN projects : projects[k].project_id = projectId

HasGeometry == \E k \in DOMAIN geojsons : geojsons[k].project_id = projectId

Produced == result.t = "props"

Zero == Num(0, 1)

\* C1: when HEAD requests fail with a network error, the build still returns a
\* record, and the row of every failed probe has ok = false and size = 0.
C1_RejectedProbesBecomeRows ==
    (\E i \in DOMAIN urlResponsePromises : urlResponsePromises[i] = Rejected)
        => /\ Produced
           /\ \A i \in DOMAIN urlResponsePromises :
                urlResponsePromises[i] = Rejected
                    => /\ result.props.urls[i].ok = FALSE
                       /\ result.props.urls[i].size = Zero

\* C2: the row of a probe answered with a non-success status has ok = false and
\* size = 0, whatever content-length the response carries.
C2_NonSuccessRowsHaveSizeZero ==
    Produced
        => \A i \in Probes :
              res[i].ok = FALSE
                  => /\ result.props.urls[i].ok = FALSE
                     /\ result.props.urls[i].size = Zero

\* C3: every returned record has exactly 10 urls, the i-th carrying the name,
\* the type and the url of the i-th entry of the download catalogue, whatever
\* the probes were answered and in whatever order they completed.
C3_TenRowsInCatalogueOrder ==
    Produced
        => /\ Len(result.props.urls) = 10
           /\ Len(Downloads) = 10
           /\ \A i \in 1..10 :
                /\ result.props.urls[i].name = Downloads[i].name
                /\ result.props.urls[i].type = Downloads[i].type
                /\ result.props.urls[i].url
                      = <<Host, Downloads[i].head, projectId, Downloads[i].tail>>

\* a record returned after the probes completed out of catalogue order, some
\* answered with a success status and some not
C3_Witness ==
    /\ Produced
    /\ reordered
    /\ \E i, j \in Probes : res[i].ok /\ ~res[j].ok

\* C4: all 10 probes are issued before the build waits on any of them, and the
\* build ends, with a record or an error, only when none of them is pending.
C4_EndsOnlyWhenAllSettled ==
    /\ pc = "awaitAll" => DOMAIN urlResponsePromises = 1..10
    /\ pc = "done"
          => \A i \in DOMAIN urlResponsePromises :
                urlResponsePromises[i].state # "pending"

Count(s, x) == Cardinality({k \in DOMAIN s : s[k] = x})

Carriers(id) == Cardinality({k \in DOMAIN projects : projects[k].project_id = id})

Pair(id, l) == [id |-> id, locale |-> l]

C6_UncataloguedIdThrows ==
    (pc # "paths" /\ ~Catalogued)
        => /\ ~Produced
           /\ pc \in {"start", "done"}
           /\ pc = "done"
                => /\ result = ErrorResult(<<"Could not get project ", projectId>>)
                   /\ urlResponsePromises = <<>>

\* the build ended for an identifier missing from a catalogue that is not
\* empty, with a geometry collection that is not empty
C6_Witness ==
    /\ pc = "done"
    /\ ~Catalogued
    /\ projects # <<>>
    /\ geojsons # <<>>
    /\ result.t = "error"

\* C7: totalProgress is the progress fraction times 100 rounded to the nearest
\* integer when the fraction is present (0 for a fraction of 0), and null
\* exactly when the fraction is null or undefined.
C7_TotalProgress ==
    Produced
        => LET f == project.progress
               tp == result.props.totalProgress
           IN IF Absent(f)
              THEN tp = Null
              ELSE /\ tp.t = "number"
                   /\ tp.d = 1
                   /\ Nearest(tp.n, Num(100 * f.n, f.d))
                   /\ f.n = 0 => tp = Zero

\* a record for a progress of 0.4567, whose totalProgress is 46
C7_Witness ==
    /\ Produced
    /\ project.progress = Num(4567, 10000)
    /\ result.props.totalProgress = Num(46, 1)

\* C8: totalArea is always a number: the area rounded to the nearest integer
\* when the area is present, 0 when it is absent.
C8_TotalArea ==
    Produced
        => LET a == project.area_sqkm
               ta == result.props.totalArea
           IN /\ ta.t = "number"
              /\ ta.d = 1
              /\ IF Absent(a) THEN ta = Zero ELSE Nearest(ta.n, a)

\* a record for an area of 12.7, whose totalArea is 13
C8_Witness ==
    /\ Produced
    /\ project.area_sqkm = Num(127, 10)
    /\ result.props.totalArea = Num(13, 1)

C10_BuildEnds == (pc = "awaitAll") ~> (pc = "done")

====
